---- MODULE Spec2Model ----
(***************************************************************************)
(* pixchart: one chart (pixChart, src/unnamed/part_000 lines 1-311) with   *)
(* the particle loader it drives (loadParticles, lines 313-428), run on    *)
(* the host's single cooperative timeline: every action below is one       *)
(* macrotask (an API call of the owner, a timer expiry, an animation frame *)
(* callback, the image's load event) together with the promise reactions   *)
(* that run before control returns to the host.                            *)
(*                                                                         *)
(* Numbers.  JavaScript numbers are modelled exactly on a grid: a model    *)
(* integer x stands for x / Scale, so that (max - min) / framesCount is    *)
(* exact for every framesCount the model uses.  Rounding of doubles is not *)
(* modelled.  undefined and NaN behave alike in the chart's arithmetic and *)
(* comparisons and are one value here (NaN); +Infinity and -Infinity are   *)
(* the loader's initial minFrameSpan / maxFrameSpan.                       *)
(***************************************************************************)
EXTENDS Integers, FiniteSets, Sequences, TLC

\* ---- bounds of the model -------------------------------------------------
MaxPixels == 2
MaxReloads == 1
MaxFramesCount == 2
MaxSample == 1
MaxResize == 1
MaxChannel == 2
MaxQueue == 2
MaxSceneTimers == 2

\* ---- program constants ---------------------------------------------------
ANIMATION_COLLAPSE == 1
ANIMATION_EXPAND == 2
initialState == ANIMATION_COLLAPSE
ProgressInterval == 10
DefaultFramesCount == 120
FramesPerSecond == 60

\* ---- numbers -------------------------------------------------------------
RECURSIVE Factorial(_)
Factorial(n) == IF n <= 1 THEN 1 ELSE n * Factorial(n - 1)

\* one model unit is 1/Scale: every division by a framesCount is exact
Scale == Factorial(MaxFramesCount)

Num(n) == [k |-> "num", v |-> n]
NaN == [k |-> "nan", v |-> 0]
PosInf == [k |-> "inf", v |-> 1]
NegInf == [k |-> "inf", v |-> -1]

Sign(n) == IF n < 0 THEN -1 ELSE IF n > 0 THEN 1 ELSE 0

\* a < b of JavaScript: false as soon as one side is NaN / undefined
Lt(a, b) ==
  IF a.k = "nan" \/ b.k = "nan" THEN FALSE
  ELSE IF a.k = "num" /\ b.k = "num" THEN a.v < b.v
  ELSE IF a.k = "inf" /\ b.k = "inf" THEN a.v < b.v
  ELSE IF a.k = "inf" THEN a.v < 0
  ELSE b.v > 0

\* a + b of JavaScript
Add(a, b) ==
  IF a.k = "nan" \/ b.k = "nan" THEN NaN
  ELSE IF a.k = "num" /\ b.k = "num" THEN Num(a.v + b.v)
  ELSE IF a.k = "inf" /\ b.k = "inf" THEN (IF a.v = b.v THEN a ELSE NaN)
  ELSE IF a.k = "inf" THEN a
  ELSE b

Neg(a) == IF a.k = "nan" THEN a ELSE [k |-> a.k, v |-> 0 - a.v]

Sub(a, b) == Add(a, Neg(b))

\* a / f of JavaScript for an integer f # 0
DivInt(a, f) ==
  IF a.k = "nan" THEN NaN
  ELSE IF a.k = "inf" THEN [k |-> "inf", v |-> a.v * Sign(f)]
  ELSE IF f > 0 THEN Num(a.v \div f)
  ELSE Num(0 - (a.v \div (0 - f)))

Min2(a, b) == IF Lt(b, a) THEN b ELSE a
Max2(a, b) == IF Lt(a, b) THEN b ELSE a

\* Math.max(newCount, 1)
MathMax(a, b) == IF a > b THEN a ELSE b

\* the values random.gaussian() may return (line 394), on the grid
Samples == {Num(s * Scale) : s \in 0..MaxSample}

\* the loads of one chart: 1 is the constructor's pipeline, the others are reloads
LoadIds == 1..(1 + MaxReloads)

\* the calls of loadParticles followed in detail: a first run and a re-run
RunIds == 1..2

\* the tick counts kept as history stop counting here
TickCap == 2 * MaxFramesCount + 2

\* a handle the host has not handed out among the outstanding ones
FreshId(outstanding, held) ==
  CHOOSE i \in 1..(Cardinality(outstanding) + 2) : i \notin outstanding /\ i # held

VARIABLES
  state,                  \* ANIMATION_COLLAPSE or ANIMATION_EXPAND
  currentFrameNumber,
  framesCount,
  minFrameSpan, maxFrameSpan, frameChangeRate,
  nextAnimationFrame,     \* handle of the requested animate callback, or 0
  pendingTimeout,         \* handle of the pause timer, or 0
  disposed,
  isCancelled,            \* particleLoaderSettings.isCancelled
  requestSizeUpdate,
  particleAttributesBuffer, \* 0 (none) or the load whose buffer the chart holds
  imgInfo,                \* 0 (none) or the load whose image and texture the chart holds
  progress,               \* the object handed to options.progress
  loads,                  \* per load: the pipeline's position and the loader's closure
  timeouts,               \* host: handles of the pause timers not yet expired
  rafs,                   \* host: handles of the animate callbacks not yet run
  resizeFrames,           \* host: number of resize callbacks not yet run
  textures,               \* GL: the loads whose texture exists (created, not deleted)
  buffers,                \* GL: the loads whose attribute buffer exists
  ticks,                  \* history: the calls of animate in the current phase
                          \* (now) and in the phase before it (last)
  calls,                  \* what the last step called: "cycleComplete" (line 254,
                          \* reached whether or not options.cycleComplete is set),
                          \* "drawArrays" (lines 183 and 202)
  \* the particle loader in detail (loadParticles, lines 313-428)
  image,                  \* the decoded pixels handed to loadParticles, row-major
  runs,                   \* per call of loadParticles: its closure and its promise
  draws,                  \* number of random.gaussian() calls made so far on the
                          \* module's one generator (line 315)
  \* the session that owns the chart (initScene, src/src/scene.js)
  queue,                  \* the image links to play
  lastIndex,
  sceneTimeouts,          \* host: the session's timers not yet expired
  scenePendingTimeout,    \* the session's pendingTimeout: the handle it holds, or 0
  currentPixChart,        \* 0 (none) or the imageLink of the chart the session holds
  duration,               \* state.duration, in sixtieths of a second
  bucketCount             \* state.bucketCount, handed over as options.bucketCount

vars == <<state, currentFrameNumber, framesCount, minFrameSpan, maxFrameSpan,
          frameChangeRate, nextAnimationFrame, pendingTimeout, disposed,
          isCancelled, requestSizeUpdate, particleAttributesBuffer, imgInfo,
          progress, loads, timeouts, rafs, resizeFrames, textures, buffers, calls,
          ticks, image, runs, draws,
          queue, lastIndex, sceneTimeouts, scenePendingTimeout, currentPixChart,
          duration, bucketCount>>

chartVars == <<state, currentFrameNumber, framesCount, minFrameSpan, maxFrameSpan,
               frameChangeRate, nextAnimationFrame, pendingTimeout, disposed,
               isCancelled, requestSizeUpdate, particleAttributesBuffer, imgInfo,
               progress, loads, timeouts, rafs, resizeFrames, textures, buffers, calls,
               ticks>>
layoutVars == <<image, runs, draws>>
sceneVars == <<queue, lastIndex, sceneTimeouts, scenePendingTimeout,
               currentPixChart, duration, bucketCount>>

animVars == <<state, currentFrameNumber, nextAnimationFrame, pendingTimeout,
              timeouts, rafs, ticks>>
glVars == <<particleAttributesBuffer, imgInfo, textures, buffers>>
spanVars == <<minFrameSpan, maxFrameSpan, frameChangeRate>>

\* the closure of one loadParticles call, before the call
NoLoad ==
  [stage |-> "none", n |-> 0, idx |-> 0, initIntervals |-> 0,
   minFrameSpan |-> PosInf, maxFrameSpan |-> NegInf]

\* line 33: options.framesCount || 120 (0, NaN and undefined are falsy; the
\* model writes 0 for them)
framesCountOption(fc) == IF fc = 0 THEN DefaultFramesCount ELSE fc

\* the chart as its constructor leaves it (lines 12-74), called with
\* options.framesCount = fc: the image is being loaded
pixChart(fc) ==
  [state |-> initialState,
   currentFrameNumber |-> Num(0),
   framesCount |-> framesCountOption(fc),
   minFrameSpan |-> NaN,
   maxFrameSpan |-> NaN,
   frameChangeRate |-> NaN,
   nextAnimationFrame |-> 0,
   pendingTimeout |-> 0,
   disposed |-> FALSE,
   isCancelled |-> FALSE,
   requestSizeUpdate |-> FALSE,
   particleAttributesBuffer |-> 0,
   imgInfo |-> 0,
   progress |-> [step |-> "image", total |-> 0, current |-> 0],
   loads |-> [l \in LoadIds |-> IF l = 1 THEN [NoLoad EXCEPT !.stage = "image"] ELSE NoLoad],
   timeouts |-> {},
   rafs |-> {},
   resizeFrames |-> 0,
   textures |-> {},
   buffers |-> {},
   calls |-> {},
   ticks |-> [now |-> 0, last |-> 0]]

\* the chart's variables hold the chart c
ChartIs(c) ==
  /\ state = c.state
  /\ currentFrameNumber = c.currentFrameNumber
  /\ framesCount = c.framesCount
  /\ minFrameSpan = c.minFrameSpan
  /\ maxFrameSpan = c.maxFrameSpan
  /\ frameChangeRate = c.frameChangeRate
  /\ nextAnimationFrame = c.nextAnimationFrame
  /\ pendingTimeout = c.pendingTimeout
  /\ disposed = c.disposed
  /\ isCancelled = c.isCancelled
  /\ requestSizeUpdate = c.requestSizeUpdate
  /\ particleAttributesBuffer = c.particleAttributesBuffer
  /\ imgInfo = c.imgInfo
  /\ progress = c.progress
  /\ loads = c.loads
  /\ timeouts = c.timeouts
  /\ rafs = c.rafs
  /\ resizeFrames = c.resizeFrames
  /\ textures = c.textures
  /\ buffers = c.buffers
  /\ calls = c.calls
  /\ ticks = c.ticks

\* the chart's variables are handed to the chart c
ChartBecomes(c) ==
  /\ state' = c.state
  /\ currentFrameNumber' = c.currentFrameNumber
  /\ framesCount' = c.framesCount
  /\ minFrameSpan' = c.minFrameSpan
  /\ maxFrameSpan' = c.maxFrameSpan
  /\ frameChangeRate' = c.frameChangeRate
  /\ nextAnimationFrame' = c.nextAnimationFrame
  /\ pendingTimeout' = c.pendingTimeout
  /\ disposed' = c.disposed
  /\ isCancelled' = c.isCancelled
  /\ requestSizeUpdate' = c.requestSizeUpdate
  /\ particleAttributesBuffer' = c.particleAttributesBuffer
  /\ imgInfo' = c.imgInfo
  /\ progress' = c.progress
  /\ loads' = c.loads
  /\ timeouts' = c.timeouts
  /\ rafs' = c.rafs
  /\ resizeFrames' = c.resizeFrames
  /\ textures' = c.textures
  /\ buffers' = c.buffers
  /\ calls' = c.calls
  /\ ticks' = c.ticks

\* loadParticles has not been called
NoRun ==
  [stage |-> "none", n |-> 0, bucketsCount |-> 0, idx |-> 0, initIntervals |-> 0,
   bucketColors |-> <<>>, particleAttributes |-> <<>>, maxYValue |-> 0,
   resolves |-> 0]

\* no session: the chart's owner is left open
NoScene ==
  /\ queue = <<>>
  /\ lastIndex = 0
  /\ sceneTimeouts = {}
  /\ scenePendingTimeout = 0
  /\ currentPixChart = 0
  /\ duration = 0

\* one chart, constructed with a framesCount of at least 1, under any owner
Init ==
  /\ \E fc \in 1..MaxFramesCount : ChartIs(pixChart(fc))
  /\ image = <<>>
  /\ runs = [r \in RunIds |-> NoRun]
  /\ draws = 0
  /\ NoScene
  /\ bucketCount = 1


\* ---- what the session does when the chart signals ------------------------------

\* pendingTimeout = setTimeout(...) of the session: the handle is overwritten,
\* the timer it named before stays with the host
SceneSetsTimer(kind, img) ==
  LET id == FreshId({x.id : x \in sceneTimeouts}, scenePendingTimeout)
  IN /\ scenePendingTimeout' = id
     /\ sceneTimeouts' = sceneTimeouts \cup {[id |-> id, kind |-> kind, img |-> img]}

\* the handlers createPixChart registers (scene.js:326-330): 'cycle-complete'
\* sets the timer of processNextInQueue; 'loading-progress' is
\* showLoadingProgress (scene.js:255-283), which on the step 'error' sets that
\* timer when the queue has more than one entry.  A chart that no session holds
\* has no such listener.
OwnerHandlers ==
  IF /\ currentPixChart # 0
     /\ \/ "cycleComplete" \in calls'
        \/ (progress'.step = "error" /\ progress.step # "error" /\ Len(queue) > 1)
  THEN /\ SceneSetsTimer("next", 0)
       /\ UNCHANGED <<queue, lastIndex, currentPixChart, duration, bucketCount>>
  ELSE UNCHANGED sceneVars

\* ---- the animation state machine ------------------------------------------

\* completeState with the test of line 251 inverted: cycleComplete after the
\* collapse, the pause after the expand
completeStateInverted(st) ==
  [state |-> st,
   currentFrameNumber |-> minFrameSpan,
   frame |-> FALSE,
   cycleComplete |-> (st # initialState),
   pause |-> (st = initialState)]

\* completeState without the timer of lines 258-261
completeStateNoPause(st) ==
  [state |-> st,
   currentFrameNumber |-> minFrameSpan,
   frame |-> FALSE,
   cycleComplete |-> (st = initialState),
   pause |-> FALSE]

\* completeState (lines 249-263), entered with the phase just switched to:
\* what it assigns and what it calls or schedules
completeState(st) ==
  [state |-> st,
   currentFrameNumber |-> minFrameSpan,
   frame |-> FALSE,
   cycleComplete |-> (st = initialState),
   pause |-> (st # initialState)]

\* scheduleNextFrame with the collapse advancing like the expand, twice a tick
scheduleNextFrameDoubleCollapse ==
  IF Lt(currentFrameNumber, maxFrameSpan)
  THEN LET once == Add(currentFrameNumber, frameChangeRate)
           twice == IF Lt(once, maxFrameSpan) THEN Add(once, frameChangeRate) ELSE once
       IN [state |-> state, currentFrameNumber |-> twice,
           frame |-> TRUE, cycleComplete |-> FALSE, pause |-> FALSE]
  ELSE IF state = ANIMATION_COLLAPSE
       THEN completeState(ANIMATION_EXPAND)
       ELSE completeState(ANIMATION_COLLAPSE)

\* scheduleNextFrame with the expand advancing like the collapse, once a tick
scheduleNextFrameSingleExpand ==
  IF Lt(currentFrameNumber, maxFrameSpan)
  THEN [state |-> state,
        currentFrameNumber |-> Add(currentFrameNumber, frameChangeRate),
        frame |-> TRUE, cycleComplete |-> FALSE, pause |-> FALSE]
  ELSE IF state = ANIMATION_COLLAPSE
       THEN completeState(ANIMATION_EXPAND)
       ELSE completeState(ANIMATION_COLLAPSE)

\* scheduleNextFrame (lines 220-243)
scheduleNextFrame ==
  IF state = ANIMATION_COLLAPSE
  THEN IF Lt(currentFrameNumber, maxFrameSpan)
       THEN [state |-> state,
             currentFrameNumber |-> Add(currentFrameNumber, frameChangeRate),
             frame |-> TRUE, cycleComplete |-> FALSE, pause |-> FALSE]
       ELSE completeState(ANIMATION_EXPAND)
  ELSE IF Lt(currentFrameNumber, maxFrameSpan)
       THEN LET once == Add(currentFrameNumber, frameChangeRate)
                twice == IF Lt(once, maxFrameSpan) THEN Add(once, frameChangeRate) ELSE once
            IN [state |-> state, currentFrameNumber |-> twice,
                frame |-> TRUE, cycleComplete |-> FALSE, pause |-> FALSE]
       ELSE completeState(ANIMATION_COLLAPSE)

\* startExpandCollapseCycle without the "already scheduled" return of line 212
CanStartCycleUnguarded == ~disposed

\* the two guards of startExpandCollapseCycle (lines 211-212) both pass
CanStartCycle == ~disposed /\ nextAnimationFrame = 0 /\ pendingTimeout = 0

\* restartCycle of the api: startExpandCollapseCycle (lines 205-218)
startExpandCollapseCycle ==
  /\ IF CanStartCycle
     THEN LET id == FreshId(timeouts, pendingTimeout)
          IN /\ pendingTimeout' = id
             /\ timeouts' = timeouts \cup {id}
     ELSE UNCHANGED <<pendingTimeout, timeouts>>
  /\ calls' = {}
  /\ UNCHANGED <<state, currentFrameNumber, framesCount, spanVars, nextAnimationFrame,
                 disposed, isCancelled, requestSizeUpdate, glVars, progress, loads,
                 rafs, resizeFrames, ticks>>

\* restartCycle of the api, called by an owner that is not the session
RestartCycle ==
  /\ startExpandCollapseCycle
  /\ UNCHANGED layoutVars
  /\ UNCHANGED sceneVars

\* the pause timer's callback (lines 214-217 and 258-261)
pauseTimerFires(id) ==
  /\ id \in timeouts
  /\ LET raf == FreshId(rafs, nextAnimationFrame)
     IN /\ pendingTimeout' = 0
        /\ nextAnimationFrame' = raf
        /\ rafs' = rafs \cup {raf}
  /\ timeouts' = timeouts \ {id}
  /\ calls' = {}
  /\ UNCHANGED <<state, currentFrameNumber, framesCount, spanVars, disposed, isCancelled,
                 requestSizeUpdate, glVars, progress, loads, resizeFrames, ticks>>

\* the host runs the pause timer's callback
PauseTimer(id) ==
  /\ pauseTimerFires(id)
  /\ UNCHANGED layoutVars
  /\ UNCHANGED sceneVars

\* animate (lines 186-191): drawCurrentFrame, then scheduleNextFrame
animate(id) ==
  /\ id \in rafs
  /\ LET r == scheduleNextFrame
         left == rafs \ {id}
         raf == FreshId(left, 0)
         timer == FreshId(timeouts, pendingTimeout)
     IN /\ state' = r.state
        /\ currentFrameNumber' = r.currentFrameNumber
        /\ nextAnimationFrame' = IF r.frame THEN raf ELSE 0
        /\ rafs' = IF r.frame THEN left \cup {raf} ELSE left
        /\ pendingTimeout' = IF r.pause THEN timer ELSE pendingTimeout
        /\ timeouts' = IF r.pause THEN timeouts \cup {timer} ELSE timeouts
        /\ calls' = {"drawArrays"} \cup (IF r.cycleComplete THEN {"cycleComplete"} ELSE {})
        /\ ticks' = IF r.state # state
                    THEN [now |-> 0, last |-> ticks.now + 1]
                    ELSE [ticks EXCEPT !.now = IF @ < TickCap THEN @ + 1 ELSE @]
  /\ requestSizeUpdate' = FALSE
  /\ UNCHANGED <<framesCount, spanVars, disposed, isCancelled, glVars, progress, loads,
                 resizeFrames>>

\* the host runs the animation frame callback; the owner hears cycle-complete
Animate(id) ==
  /\ animate(id)
  /\ UNCHANGED layoutVars
  /\ OwnerHandlers

\* setFramesCount (lines 135-138)
setFramesCount(newCount) ==
  /\ framesCount' = MathMax(newCount, 1)
  /\ frameChangeRate' = DivInt(Sub(maxFrameSpan, minFrameSpan), framesCount')
  /\ calls' = {}
  /\ UNCHANGED <<animVars, minFrameSpan, maxFrameSpan, disposed, isCancelled,
                 requestSizeUpdate, glVars, progress, loads, resizeFrames>>

\* setFramesCount of the api
SetFramesCount(newCount) ==
  /\ setFramesCount(newCount)
  /\ UNCHANGED layoutVars
  /\ UNCHANGED sceneVars

\* setSceneSize (lines 140-151): requests the resize callback
setSceneSize ==
  /\ resizeFrames < MaxResize
  /\ resizeFrames' = resizeFrames + 1
  /\ calls' = {}
  /\ UNCHANGED <<animVars, framesCount, spanVars, disposed, isCancelled,
                 requestSizeUpdate, glVars, progress, loads>>

\* setSceneSize of the api
SetSceneSize ==
  /\ setSceneSize
  /\ UNCHANGED layoutVars
  /\ UNCHANGED sceneVars

\* the resize callback (lines 146-150) with drawCurrentFrame (lines 193-203)
resizeFrameRuns ==
  /\ resizeFrames > 0
  /\ resizeFrames' = resizeFrames - 1
  /\ requestSizeUpdate' = FALSE
  /\ calls' = {"drawArrays"}
  /\ UNCHANGED <<animVars, framesCount, spanVars, disposed, isCancelled, glVars,
                 progress, loads>>

\* the host runs the resize callback
ResizeFrame ==
  /\ resizeFrameRuns
  /\ UNCHANGED layoutVars
  /\ UNCHANGED sceneVars

\* dispose (lines 265-278) with releasePreviousWebGLResources (lines 280-289)
dispose ==
  /\ rafs' = rafs \ {nextAnimationFrame}
  /\ timeouts' = timeouts \ {pendingTimeout}
  /\ buffers' = buffers \ {particleAttributesBuffer}
  /\ textures' = textures \ {imgInfo}
  /\ particleAttributesBuffer' = 0
  /\ imgInfo' = 0
  /\ isCancelled' = TRUE
  /\ nextAnimationFrame' = 0
  /\ pendingTimeout' = 0
  /\ disposed' = TRUE
  /\ calls' = {}
  /\ UNCHANGED <<state, currentFrameNumber, framesCount, spanVars, requestSizeUpdate,
                 progress, loads, resizeFrames, ticks>>

\* dispose of the api
Dispose ==
  /\ dispose
  /\ UNCHANGED layoutVars
  /\ UNCHANGED sceneVars


\* A load is in one of the stages
\*   "none"       not requested
\*   "image"      loadImage pending
\*   "scheduled"  the loader has setTimeout(processPixels) outstanding
\*   "abandoned"  scheduleWork returned at line 363: the promise never settles
\*   "resolved"   the promise chain ran to its end
\*   "rejected"   the promise chain was rejected
\* and idx counts pixels (the code's idx / 4).

\* ---- the loading pipeline and the particle loader ---------------------------

\* the rejection of a load's promise chain: the constructor's pipeline ends in
\* .catch (lines 84-89), the chain of setMaxPixels (lines 94-98) has no handler
Rejected(l, p) ==
  IF l = 1 THEN [p EXCEPT !.step = "error"] ELSE p

\* setMaxPixels (lines 92-99): a further load of the same image
setMaxPixels ==
  /\ \E l \in LoadIds :
       /\ loads[l].stage = "none"
       /\ \A m \in LoadIds : m < l => loads[m].stage # "none"
       /\ loads' = [loads EXCEPT ![l].stage = "image"]
  /\ calls' = {}
  /\ UNCHANGED <<animVars, framesCount, spanVars, disposed, isCancelled,
                 requestSizeUpdate, glVars, progress, resizeFrames>>

\* setMaxPixels of the api
SetMaxPixels ==
  /\ setMaxPixels
  /\ UNCHANGED layoutVars
  /\ UNCHANGED sceneVars

\* scheduleWork (lines 362-371) of load l whose cursor is at idx pixels
scheduleWork(ld) ==
  IF isCancelled
  THEN [ld EXCEPT !.stage = "abandoned"]
  ELSE [ld EXCEPT !.stage = "scheduled", !.initIntervals = ld.initIntervals + 1]

\* onProgress (line 367, lines 124-127), called on every tenth interval
reportImageStatsProgress(ld, p) ==
  IF ~isCancelled /\ (ld.initIntervals + 1) % ProgressInterval = 0
  THEN [p EXCEPT !.current = ld.idx]
  ELSE p

\* width * height of the image loadImage is fulfilled with.  The loader does not
\* look at it before it starts (lines 330-353): for 0 pixels it is the host's
\* canvas that decides whether lines 338-340 throw or hand back no pixel data.
ImageSizes == 0..MaxPixels

\* loadImage settles (lines 77-81, 94-97).  Fulfilled with an image of n pixels:
\* updateProgressAndLoadParticles (lines 101-106) and the synchronous part of
\* loadParticles (lines 319-355), whose canvas calls (lines 337-340) may throw.
imageSettles(l) ==
  /\ loads[l].stage = "image"
  /\ \/ /\ loads' = [loads EXCEPT ![l].stage = "rejected"]
        /\ progress' = Rejected(l, progress)
     \/ \E n \in ImageSizes, canvasThrows \in BOOLEAN :
          LET p == [progress EXCEPT !.total = n, !.step = "pixels"]
              ld == [loads[l] EXCEPT !.n = n]
          IN IF canvasThrows
             THEN /\ loads' = [loads EXCEPT ![l] = [ld EXCEPT !.stage = "rejected"]]
                  /\ progress' = Rejected(l, p)
             ELSE /\ loads' = [loads EXCEPT ![l] = scheduleWork(ld)]
                  /\ progress' = reportImageStatsProgress(ld, p)
  /\ calls' = {}
  /\ UNCHANGED <<animVars, framesCount, spanVars, disposed, isCancelled,
                 requestSizeUpdate, glVars, resizeFrames>>

\* the host settles loadImage; the owner hears the progress
ImageLoaded(l) ==
  /\ imageSettles(l)
  /\ UNCHANGED layoutVars
  /\ OwnerHandlers

\* initWebGLPrimitives as it would be without keepCurrentFrame: the frame number
\* is set anew on every installation
InitWebGLPrimitivesResetFrame(l, ld) ==
  /\ textures' = (textures \cup {l}) \ {imgInfo}
  /\ buffers' = (buffers \ {particleAttributesBuffer}) \cup {l}
  /\ imgInfo' = l
  /\ particleAttributesBuffer' = l
  /\ minFrameSpan' = ld.minFrameSpan
  /\ maxFrameSpan' = ld.maxFrameSpan
  /\ frameChangeRate' = DivInt(Sub(ld.maxFrameSpan, ld.minFrameSpan), framesCount)
  /\ currentFrameNumber' = ld.minFrameSpan

\* initWebGLPrimitives (lines 153-184) for the result of load l, when not disposed;
\* keepCurrentFrame is set by setMaxPixels only (line 98), i.e. for l # 1
InitWebGLPrimitives(l, ld) ==
  /\ textures' = (textures \cup {l}) \ {imgInfo}
  /\ buffers' = (buffers \ {particleAttributesBuffer}) \cup {l}
  /\ imgInfo' = l
  /\ particleAttributesBuffer' = l
  /\ minFrameSpan' = ld.minFrameSpan
  /\ maxFrameSpan' = ld.maxFrameSpan
  /\ frameChangeRate' = DivInt(Sub(ld.maxFrameSpan, ld.minFrameSpan), framesCount)
  /\ currentFrameNumber' = IF l = 1 THEN ld.minFrameSpan ELSE currentFrameNumber

\* the loader's promise is fulfilled (lines 420-426): the reactions of lines
\* 107-121, then initWebGLPrimitives, then (constructor's pipeline only)
\* startExpandCollapseCycle
Resolved(l, ld) ==
  \E textureCreated \in BOOLEAN :
    IF ~textureCreated
    THEN /\ loads' = [loads EXCEPT ![l] = [ld EXCEPT !.stage = "rejected"]]
         /\ progress' = Rejected(l, [progress EXCEPT !.step = "done"])
         /\ calls' = {}
         /\ UNCHANGED <<currentFrameNumber, spanVars, glVars, pendingTimeout, timeouts>>
    ELSE /\ loads' = [loads EXCEPT ![l] = [ld EXCEPT !.stage = "resolved"]]
         /\ progress' = [progress EXCEPT !.step = "done"]
         /\ IF disposed
            THEN /\ textures' = textures \cup {l}
                 /\ calls' = {}
                 /\ UNCHANGED <<currentFrameNumber, spanVars, particleAttributesBuffer,
                                imgInfo, buffers>>
            ELSE /\ InitWebGLPrimitives(l, ld)
                 /\ calls' = {"drawArrays"}
         /\ IF l = 1 /\ CanStartCycle
            THEN LET id == FreshId(timeouts, pendingTimeout)
                 IN /\ pendingTimeout' = id
                    /\ timeouts' = timeouts \cup {id}
            ELSE UNCHANGED <<pendingTimeout, timeouts>>

\* processPixels (lines 373-427), the timer callback of load l: one batch of k
\* pixels whose gaussian samples span lo..hi.  The clock is read after every pixel
\* (line 411), so a batch ends after any pixel, the last one included.
loaderTimerFires(l) ==
  /\ loads[l].stage = "scheduled"
  /\ LET rem == loads[l].n - loads[l].idx
     IN \E k \in 0..rem, lo \in Samples, hi \in Samples, yields \in BOOLEAN :
          /\ (k = 0) = (rem = 0)
          /\ ~Lt(hi, lo)
          /\ k = 1 => lo = hi
          /\ k = 0 => (lo = hi /\ lo = Num(0))
          /\ yields => k >= 1
          /\ ~yields => k = rem
          /\ LET ld == IF k = 0 THEN loads[l]
                       ELSE [loads[l] EXCEPT
                               !.idx = loads[l].idx + k,
                               !.minFrameSpan = Min2(loads[l].minFrameSpan, lo),
                               !.maxFrameSpan = Max2(loads[l].maxFrameSpan, hi)]
             IN IF yields
                THEN /\ loads' = [loads EXCEPT ![l] = scheduleWork(ld)]
                     /\ progress' = reportImageStatsProgress(ld, progress)
                     /\ calls' = {}
                     /\ UNCHANGED <<currentFrameNumber, spanVars, glVars,
                                    pendingTimeout, timeouts>>
                ELSE Resolved(l, ld)
  /\ UNCHANGED <<state, framesCount, nextAnimationFrame, rafs, disposed, isCancelled,
                 requestSizeUpdate, resizeFrames, ticks>>

\* the host runs the loader's timer; the owner hears the progress
ProcessPixels(l) ==
  /\ loaderTimerFires(l)
  /\ UNCHANGED layoutVars
  /\ OwnerHandlers

\* ---- the particle loader in detail ----------------------------------------------
\* One call of loadParticles followed pixel by pixel: the quantization, the
\* buckets and the attribute buffer.  A pixel is <<r, g, b>> with channels in
\* 0..MaxChannel (for 0..255).  A particle's frameSpan is kept as the ordinal of
\* the random.gaussian() call that produced it.  The buffer is a Float32Array in
\* the code; the rounding of its elements is not modelled, nor is the wrap of the
\* Uint32Array counters (a bucket holds at most n counts).

\* reds and greys
PixelColors ==
  {<<c, 0, 0>> : c \in 0..MaxChannel} \cup {<<c, c, c>> : c \in 0..MaxChannel}

\* the images of width n and height 1, n = 0 included
Images == UNION {[1..n -> PixelColors] : n \in 0..MaxPixels}

Max3(px) ==
  IF px[1] >= px[2] /\ px[1] >= px[3] THEN px[1]
  ELSE IF px[2] >= px[3] THEN px[2] ELSE px[3]

Min3(px) ==
  IF px[1] <= px[2] /\ px[1] <= px[3] THEN px[1]
  ELSE IF px[2] <= px[3] THEN px[2] ELSE px[3]

\* a value v in [0, 1] is kept as the integer v * ValueDen
ValueDen == 2 * MaxChannel

\* getValue (lines 357-360): the lightness of rgbToHsl, (max + min) / 2 of the
\* channels scaled to [0, 1]
getValue(px) == Max3(px) + Min3(px)

\* lines 383-388: Math.round(v * bucketsCount), the top edge clamped
bucketNumberOf(v, B) ==
  LET rounded == (2 * v * B + ValueDen) \div (2 * ValueDen)
  IN IF rounded = B THEN rounded - 1 ELSE rounded

\* line 397 with the "- 1" left out
stackHeightIsOccupancy(currentYValue) == currentYValue

\* line 397: the height the particle gets in its bucket
stackHeightOf(currentYValue) == currentYValue - 1

\* one pass of the loop of processPixels with the height shifted by the number of
\* the batch
processPixelBatchRank(run, d) ==
  LET invIndex == run.n - run.idx - 1
      v == getValue(image[invIndex + 1])
      b == bucketNumberOf(v, run.bucketsCount)
      currentYValue == run.bucketColors[b] + 1
  IN [run EXCEPT
        !.bucketColors[b] = currentYValue,
        !.particleAttributes[run.idx + 1] =
           [value |-> v, stackHeight |-> currentYValue + run.initIntervals,
            frameSpan |-> d + 1, sourceIndex |-> invIndex],
        !.maxYValue = IF currentYValue > @ THEN currentYValue ELSE @,
        !.idx = run.idx + 1]

\* one pass of the loop of processPixels that leaves the cursor where it is
processPixelStuck(run, d) ==
  LET invIndex == run.n - run.idx - 1
      v == getValue(image[invIndex + 1])
      b == bucketNumberOf(v, run.bucketsCount)
      currentYValue == run.bucketColors[b] + 1
  IN [run EXCEPT
        !.bucketColors[b] = currentYValue,
        !.particleAttributes[run.idx + 1] =
           [value |-> v, stackHeight |-> stackHeightOf(currentYValue),
            frameSpan |-> d + 1, sourceIndex |-> invIndex],
        !.maxYValue = IF currentYValue > @ THEN currentYValue ELSE @]

\* one pass of the loop of processPixels (lines 378-410), entered with the cursor
\* at pixel run.idx after d calls of random.gaussian()
processPixel(run, d) ==
  LET invIndex == run.n - run.idx - 1
      v == getValue(image[invIndex + 1])
      b == bucketNumberOf(v, run.bucketsCount)
      currentYValue == run.bucketColors[b] + 1
  IN [run EXCEPT
        !.bucketColors[b] = currentYValue,
        !.particleAttributes[run.idx + 1] =
           [value |-> v, stackHeight |-> stackHeightOf(currentYValue),
            frameSpan |-> d + 1, sourceIndex |-> invIndex],
        !.maxYValue = IF currentYValue > @ THEN currentYValue ELSE @,
        !.idx = run.idx + 1]

\* k passes of the loop (x is the closure after one pass)
RECURSIVE processPixels(_, _, _)
processPixels(run, d, k) ==
  IF k = 0 THEN run
  ELSE CHOOSE res \in {processPixels(x, d + 1, k - 1) : x \in {processPixel(run, d)}} : TRUE

\* what Float32Array(4 * n) holds for a particle before it is written
NoParticle == [value |-> 0, stackHeight |-> 0, frameSpan |-> 0, sourceIndex |-> 0]

\* loadParticles (lines 319-355) on the image: the canvas calls (lines 337-340)
\* may throw; else the closure is set up and scheduleWork is called
LoadParticles(r) ==
  /\ runs[r].stage = "none"
  /\ \A q \in RunIds : q < r => runs[q].stage # "none"
  /\ \E canvasThrows \in BOOLEAN :
       LET n == Len(image)
           run == [NoRun EXCEPT
                     !.n = n,
                     !.bucketsCount = n,
                     !.bucketColors = [b \in 0..(n - 1) |-> 0],
                     !.particleAttributes = [i \in 1..n |-> NoParticle]]
       IN IF canvasThrows
          THEN /\ runs' = [runs EXCEPT ![r].stage = "rejected"]
               /\ progress' = progress
          ELSE /\ runs' = [runs EXCEPT ![r] = scheduleWork(run)]
               /\ progress' = reportImageStatsProgress(run, progress)
  /\ calls' = {}
  /\ UNCHANGED <<animVars, framesCount, spanVars, disposed, isCancelled,
                 requestSizeUpdate, glVars, loads, resizeFrames>>
  /\ UNCHANGED <<image, draws, sceneVars>>

\* processPixels (lines 373-427), the timer callback of run r: a batch of k
\* pixels, ended by the clock (line 411) or by the end of the data (line 420)
RunBatch(r) ==
  /\ runs[r].stage = "scheduled"
  /\ LET rem == runs[r].n - runs[r].idx
     IN \E k \in 0..rem, yields \in BOOLEAN :
          /\ (k = 0) = (rem = 0)
          /\ yields => k >= 1
          /\ ~yields => k = rem
          /\ LET run == processPixels(runs[r], draws, k)
             IN /\ draws' = draws + k
                /\ IF yields
                   THEN /\ runs' = [runs EXCEPT ![r] = scheduleWork(run)]
                        /\ progress' = reportImageStatsProgress(run, progress)
                   ELSE /\ runs' = [runs EXCEPT ![r] =
                                      [run EXCEPT !.stage = "resolved",
                                                  !.resolves = run.resolves + 1]]
                        /\ progress' = progress
  /\ calls' = {}
  /\ UNCHANGED <<animVars, framesCount, spanVars, disposed, isCancelled,
                 requestSizeUpdate, glVars, loads, resizeFrames>>
  /\ UNCHANGED <<image, sceneVars>>

\* ---- the session (initScene, src/src/scene.js) ------------------------------------
\* The session holds at most one chart, currentPixChart, and the chart's
\* variables are those of that chart: a chart the session has replaced is not
\* followed any further.  The chart of src/unnamed/part_000 takes its listeners
\* as options; the session registers them with on(...) (scene.js:326-330), and
\* the model calls them where the chart calls options.cycleComplete and
\* notifyProgress.

\* the valid values of state.bucketCount (scene.js:140-145, 359-361)
BucketCounts == 1..MaxPixels

\* the image links a queue is made of
Links == 1..MaxQueue

\* the arguments of setImages that change anything (scene.js:339)
Queues == UNION {[1..n -> Links] : n \in 1..MaxQueue}

\* state.duration is kept in sixtieths of a second.  Any number parseFloat
\* yields is stored (scene.js:349-353); 0 is left out: it selects the default
\* of 120 frames (part_000:33), which the grid of the model does not divide.
Durations == (-1..MaxFramesCount) \ {0}

\* toFrames (scene.js:405-407): seconds * 60
toFrames(sixtieths) == (sixtieths * FramesPerSecond) \div FramesPerSecond

\* no chart has been created: nothing of a chart is scheduled
NoChart == [pixChart(1) EXCEPT !.loads = [l \in LoadIds |-> NoLoad]]

\* initScene (scene.js:23-36, 104): with or without a link in the query string,
\* duration and bucket count as the query string gives them
SceneInit ==
  /\ ChartIs(NoChart)
  /\ image = <<>>
  /\ runs = [r \in RunIds |-> NoRun]
  /\ draws = 0
  /\ \E q \in {<<>>} \cup {<<u>> : u \in Links} :
       /\ queue = q
       /\ sceneTimeouts = IF q = <<>> THEN {} ELSE {[id |-> 1, kind |-> "next", img |-> 0]}
       /\ scenePendingTimeout = IF q = <<>> THEN 0 ELSE 1
  /\ lastIndex = 0
  /\ currentPixChart = 0
  /\ duration \in Durations
  /\ bucketCount \in BucketCounts

\* createPixChart (scene.js:312-331)
createPixChart(imageLink) ==
  /\ currentPixChart' = imageLink
  /\ ChartBecomes(pixChart(toFrames(duration)))

\* setImage (scene.js:290-310), entered with the timers `timers` outstanding and
\* the handle `held` in pendingTimeout
setImage(imageLink, forceDispose, timers, held) ==
  IF currentPixChart # 0 /\ imageLink = currentPixChart /\ ~forceDispose
  THEN /\ startExpandCollapseCycle
       /\ sceneTimeouts' = timers
       /\ scenePendingTimeout' = held
       /\ UNCHANGED currentPixChart
  ELSE IF currentPixChart # 0
  THEN LET left == {x \in timers : x.id # held}
           id == FreshId({x.id : x \in left}, 0)
       IN /\ dispose
          /\ sceneTimeouts' = left \cup {[id |-> id, kind |-> "create", img |-> imageLink]}
          /\ scenePendingTimeout' = id
          /\ UNCHANGED currentPixChart
  ELSE /\ createPixChart(imageLink)
       /\ sceneTimeouts' = timers
       /\ scenePendingTimeout' = held

\* processNextInQueue (scene.js:391-402) on the queue q, entered with
\* lastIndex = at and the timers `timers` outstanding
processNextInQueue(q, at, forceDispose, timers) ==
  /\ queue' = q
  /\ lastIndex' = IF at + 1 >= Len(q) THEN 0 ELSE at + 1
  /\ setImage(q[at + 1], forceDispose, {x \in timers : x.id # scenePendingTimeout}, 0)

\* restartCurrentAnimation (scene.js:155-162) on a queue that is not empty
restartCurrentAnimation ==
  processNextInQueue(queue,
                     IF lastIndex - 1 < 0 THEN Len(queue) - 1 ELSE lastIndex - 1,
                     TRUE, sceneTimeouts)

\* a timer of the session expires: processNextInQueue (scene.js:35, 327, 275), or
\* the creation setImage delayed (scene.js:304-307)
SceneTimerFires(tm) ==
  /\ tm \in sceneTimeouts
  /\ IF tm.kind = "next"
     THEN processNextInQueue(queue, lastIndex, FALSE, sceneTimeouts \ {tm})
     ELSE /\ createPixChart(tm.img)
          /\ scenePendingTimeout' = 0
          /\ sceneTimeouts' = sceneTimeouts \ {tm}
          /\ UNCHANGED <<queue, lastIndex>>
  /\ UNCHANGED <<duration, bucketCount, layoutVars>>

\* setImages (scene.js:337-346) with files that are not empty
SetImages(files) ==
  /\ processNextInQueue(files, 0, FALSE, sceneTimeouts)
  /\ UNCHANGED <<duration, bucketCount, layoutVars>>

\* the right arrow or the l key (scene.js:222-223).  On an empty queue the call
\* ends in the TypeError of fileImage(undefined) and changes nothing.
KeyNext ==
  /\ Len(queue) > 0
  /\ processNextInQueue(queue, lastIndex, TRUE, sceneTimeouts)
  /\ UNCHANGED <<duration, bucketCount, layoutVars>>

\* the left arrow or the h key: processPrevInQueue (scene.js:383-389)
KeyPrev ==
  /\ Len(queue) > 0
  /\ processNextInQueue(queue,
                        IF lastIndex - 2 < 0 THEN Len(queue) - 1 ELSE lastIndex - 2,
                        TRUE, sceneTimeouts)
  /\ UNCHANGED <<duration, bucketCount, layoutVars>>

\* setBucketCount (scene.js:359-368) with a count of at least 1
SetBucketCount(newCount) ==
  /\ bucketCount' = newCount
  /\ IF currentPixChart # 0 /\ Len(queue) > 0
     THEN restartCurrentAnimation
     ELSE UNCHANGED <<chartVars, queue, lastIndex, sceneTimeouts, scenePendingTimeout,
                      currentPixChart>>
  /\ UNCHANGED <<duration, layoutVars>>

\* setColorGroupBy (scene.js:147-153); setInitialState (scene.js:118-123) does
\* the same to the queue and the chart
SetColorGroupBy ==
  /\ IF Len(queue) > 0
     THEN restartCurrentAnimation
     ELSE UNCHANGED <<chartVars, queue, lastIndex, sceneTimeouts, scenePendingTimeout,
                      currentPixChart>>
  /\ UNCHANGED <<duration, bucketCount, layoutVars>>

\* setAnimationDuration (scene.js:348-357) with a string parseFloat reads
SetAnimationDuration(seconds) ==
  /\ duration' = seconds
  /\ IF currentPixChart # 0
     THEN setFramesCount(toFrames(seconds))
     ELSE UNCHANGED chartVars
  /\ UNCHANGED <<queue, lastIndex, sceneTimeouts, scenePendingTimeout, currentPixChart,
                 bucketCount, layoutVars>>

\* ---- specifications ---------------------------------------------------------

Next ==
  \/ RestartCycle
  \/ \E id \in timeouts : PauseTimer(id)
  \/ \E id \in rafs : Animate(id)
  \/ \E c \in 0..MaxFramesCount : SetFramesCount(c)
  \/ SetSceneSize
  \/ ResizeFrame
  \/ SetMaxPixels
  \/ \E l \in LoadIds : ImageLoaded(l)
  \/ \E l \in LoadIds : ProcessPixels(l)
  \/ Dispose

Spec == Init /\ [][Next]_vars

\* The animation cycle alone: the constructor's pipeline, the timers and frame
\* callbacks of the state machine, and the owner's restartCycle, setFramesCount
\* and dispose (no reload, no resize).
CycleNext ==
  \/ RestartCycle
  \/ \E id \in timeouts : PauseTimer(id)
  \/ \E id \in rafs : Animate(id)
  \/ \E c \in 0..MaxFramesCount : SetFramesCount(c)
  \/ \E l \in LoadIds : ImageLoaded(l)
  \/ \E l \in LoadIds : ProcessPixels(l)
  \/ Dispose

CycleSpec == Init /\ [][CycleNext]_vars

\* The chart left to its own scheduling: the owner calls nothing but, possibly,
\* dispose.  The host runs every callback that stays scheduled (the image's load
\* event, timers, animation frames), hence the weak fairness.
OwnNext ==
  \/ \E id \in timeouts : PauseTimer(id)
  \/ \E id \in rafs : Animate(id)
  \/ \E l \in LoadIds : ImageLoaded(l)
  \/ \E l \in LoadIds : ProcessPixels(l)
  \/ Dispose

OwnSpec ==
  /\ Init
  /\ [][OwnNext]_vars
  /\ WF_vars(\E id \in timeouts : PauseTimer(id))
  /\ WF_vars(\E id \in rafs : Animate(id))
  /\ WF_vars(\E l \in LoadIds : ImageLoaded(l))
  /\ WF_vars(\E l \in LoadIds : ProcessPixels(l))


\* The chart whose owner changes the pixel budget and, possibly, disposes it:
\* the chart's own scheduling and setMaxPixels.
ReloadNext ==
  \/ SetMaxPixels
  \/ \E id \in timeouts : PauseTimer(id)
  \/ \E id \in rafs : Animate(id)
  \/ \E l \in LoadIds : ImageLoaded(l)
  \/ \E l \in LoadIds : ProcessPixels(l)
  \/ Dispose

ReloadInit ==
  /\ ChartIs(pixChart(MaxFramesCount))
  /\ image = <<>>
  /\ runs = [r \in RunIds |-> NoRun]
  /\ draws = 0
  /\ NoScene
  /\ bucketCount = 1

ReloadSpec == ReloadInit /\ [][ReloadNext]_vars

\* The loader on its own: loadParticles is called on one image, then called again
\* on the same image, and the host runs every batch that stays scheduled; the
\* chart's dispose is what sets the cancellation flag.
LayoutInit ==
  /\ ChartIs(pixChart(1))
  /\ image \in Images
  /\ runs = [r \in RunIds |-> NoRun]
  /\ draws = 0
  /\ NoScene
  /\ bucketCount \in BucketCounts

LayoutNext ==
  \/ \E r \in RunIds : LoadParticles(r)
  \/ \E r \in RunIds : RunBatch(r)
  \/ Dispose

LayoutSpec == LayoutInit /\ [][LayoutNext]_vars

\* The loader when cancellation is never invoked (the chart is not disposed) and
\* the host runs every timer that stays scheduled.
UncancelledNext ==
  \/ \E r \in RunIds : LoadParticles(r)
  \/ \E r \in RunIds : RunBatch(r)

UncancelledInit ==
  /\ ChartIs(pixChart(1))
  /\ image \in Images
  /\ runs = [r \in RunIds |-> NoRun]
  /\ draws = 0
  /\ NoScene
  /\ bucketCount = 1

UncancelledSpec ==
  /\ UncancelledInit
  /\ [][UncancelledNext]_vars
  /\ WF_vars(\E r \in RunIds : RunBatch(r))

\* The session with the chart it holds.  A chart constructed with a negative
\* framesCount moves its frame number down without end: the model follows it
\* down to MinFrameNumber.
MinFrameNumber == Num(0 - 2 * MaxSample * Scale)

\* the sizes of the images the session's charts are given
SceneImageSizes == 0..(MaxPixels - 1)

\* the host lets at most MaxSceneTimers timers of the session wait at a time
FewSceneTimers == Cardinality(sceneTimeouts') <= MaxSceneTimers

SceneNext ==
  \/ \E tm \in sceneTimeouts : (SceneTimerFires(tm) /\ FewSceneTimers)
  \/ \E files \in Queues : (SetImages(files) /\ FewSceneTimers)
  \/ (KeyNext /\ FewSceneTimers)
  \/ (KeyPrev /\ FewSceneTimers)
  \/ \E b \in BucketCounts : (SetBucketCount(b) /\ FewSceneTimers)
  \/ (SetColorGroupBy /\ FewSceneTimers)
  \/ \E d \in Durations : SetAnimationDuration(d)
  \/ \E id \in timeouts : PauseTimer(id)
  \/ \E id \in rafs :
       (~Lt(currentFrameNumber, MinFrameNumber) /\ Animate(id) /\ FewSceneTimers)
  \/ \E l \in LoadIds :
       (ImageLoaded(l) /\ loads'[l].n \in SceneImageSizes /\ FewSceneTimers)
  \/ \E l \in LoadIds : (ProcessPixels(l) /\ FewSceneTimers)

SceneSpec == SceneInit /\ [][SceneNext]_vars

\* ---- properties ---------------------------------------------------------------

\* the layout is installed in a chart that is not disposed
Live == particleAttributesBuffer # 0 /\ ~disposed

\* neither a pause timer nor an animate callback is outstanding
Idle == timeouts = {} /\ rafs = {}

\* no loader of the chart was started on an image of 0 pixels
NonEmptyImages ==
  \A l \in LoadIds :
    loads[l].stage \in {"scheduled", "abandoned", "resolved"} => loads[l].n > 0

ExpandEnds == state = ANIMATION_EXPAND /\ state' = ANIMATION_COLLAPSE
CollapseEnds == state = ANIMATION_COLLAPSE /\ state' = ANIMATION_EXPAND

\* C1 (as amended): cycleComplete is called by exactly the ticks that switch the
\* phase from Expand back to Collapse, once each: one call per
\* Collapse -> Expand -> Collapse loop, none at the Collapse -> Expand switch.
C1_SignalledWhenExpandEnds ==
  [][("cycleComplete" \in calls') <=> ExpandEnds]_vars

\* C1 witness: a loaded chart has run a loop over a non-empty jitter range and the
\* tick that ended the Expand phase has just called cycleComplete
C1_Witness ==
  /\ Live
  /\ "cycleComplete" \in calls
  /\ state = ANIMATION_COLLAPSE
  /\ Lt(minFrameSpan, maxFrameSpan)

\* C1 (as claimed): cycleComplete is never called by the tick that switches the
\* phase from Expand back to Collapse (stated for a loaded chart animating over a
\* non-empty jitter range)
C1_NeverWhenExpandEnds ==
  [][(Live /\ Lt(minFrameSpan, maxFrameSpan) /\ ExpandEnds)
       => "cycleComplete" \notin calls']_vars

\* C2 (as amended): the chart schedules the pause itself when the Collapse phase
\* ends; when the Expand phase ends it calls cycleComplete and schedules nothing.
\* Left to its own scheduling, a loaded live chart has nothing outstanding exactly
\* when its last tick called cycleComplete, it is then in Collapse at
\* minFrameSpan, and it stays there.
C2_IdleAfterCycleComplete ==
  /\ [](Live => (Idle <=> "cycleComplete" \in calls))
  /\ []("cycleComplete" \in calls =>
          state = ANIMATION_COLLAPSE /\ currentFrameNumber = minFrameSpan)
  /\ [][CollapseEnds => (pendingTimeout' # 0 /\ timeouts' = {pendingTimeout'})]_vars
  /\ [][(Live /\ Idle /\ ~disposed') =>
          (Idle' /\ state' = state /\ currentFrameNumber' = currentFrameNumber)]_vars

\* C2 witness: the loaded, live chart at rest after its one cycle
C2_Witness ==
  /\ Live
  /\ Idle
  /\ "cycleComplete" \in calls
  /\ Lt(minFrameSpan, maxFrameSpan)

\* C2 (as claimed): with its own scheduling only, a loaded chart that is not
\* disposed leaves each phase again: the phase alternates for ever
C2_AlternatesForever ==
  /\ []((Live /\ state = ANIMATION_COLLAPSE) => <>(disposed \/ state = ANIMATION_EXPAND))
  /\ []((Live /\ state = ANIMATION_EXPAND) => <>(disposed \/ state = ANIMATION_COLLAPSE))

\* C8: at most one animation unit (pause timer or animate callback) is
\* outstanding, the chart's handle names it, and restartCycle called while one is
\* outstanding schedules nothing and leaves phase and frame number alone
C8_OneAnimationUnit ==
  /\ [](Cardinality(timeouts) + Cardinality(rafs) <= 1)
  /\ [](timeouts \subseteq {pendingTimeout} /\ rafs \subseteq {nextAnimationFrame})
  /\ [][(~Idle /\ RestartCycle) => UNCHANGED animVars]_vars

\* C8 witness: an animate callback is outstanding in the middle of a phase and a
\* call of the owner has just returned
C8_Witness ==
  /\ rafs = {nextAnimationFrame}
  /\ timeouts = {}
  /\ calls = {}
  /\ Lt(minFrameSpan, currentFrameNumber)
  /\ Lt(currentFrameNumber, maxFrameSpan)


\* C3: once the constructor's pipeline has installed its layout (no image being
\* empty), minFrameSpan <= currentFrameNumber <= maxFrameSpan
C3_FrameNumberWithinJitter ==
  (Live /\ loads[1].stage = "resolved" /\ NonEmptyImages) =>
    (~Lt(currentFrameNumber, minFrameSpan) /\ ~Lt(maxFrameSpan, currentFrameNumber))

\* C4: once isCancelled is set, a loader that has processed part of its pixels
\* processes no further pixel
C4_NoBatchAfterCancel ==
  [][\A l \in LoadIds :
       (isCancelled /\ 0 < loads[l].idx /\ loads[l].idx < loads[l].n)
         => loads'[l].idx = loads[l].idx]_vars

\* C5: no step taken after dispose issues a draw
C5_NoDrawAfterDispose == disposed => "drawArrays" \notin calls

\* C6: after dispose no texture and no buffer of the chart exists (stated for
\* images that are not empty)
C6_NoResourceAfterDispose ==
  (disposed /\ NonEmptyImages) => (textures = {} /\ buffers = {} /\ imgInfo = 0 /\ particleAttributesBuffer = 0)

\* C7: at most one loader of the chart has a batch scheduled (stated for images
\* that are not empty)
C7_OneLayoutUnit ==
  NonEmptyImages => Cardinality({l \in LoadIds : loads[l].stage = "scheduled"}) <= 1

\* C9: the step in which a load fails sets progress.step to 'error'
C9_FailureReported ==
  [][\A l \in LoadIds :
       (loads[l].stage # "rejected" /\ loads'[l].stage = "rejected")
         => progress'.step = "error"]_vars

RECURSIVE SumUpTo(_, _)
SumUpTo(f, b) == IF b < 0 THEN 0 ELSE f[b] + SumUpTo(f, b - 1)

\* the sum of the buckets' occupancies
Occupancy(run) == SumUpTo(run.bucketColors, run.bucketsCount - 1)

\* the bucket of the particle in slot i of the buffer
BucketOf(run, i) == bucketNumberOf(run.particleAttributes[i].value, run.bucketsCount)

\* C11: when a run has resolved, its buckets' occupancies sum to width * height
\* and every particle's stackHeight is at least 0 and below the final occupancy
\* of the particle's bucket, however the work was split into batches
C11_StackWithinOccupancy ==
  \A r \in RunIds :
    runs[r].stage = "resolved" =>
      /\ runs[r].n = Len(image)
      /\ Occupancy(runs[r]) = Len(image)
      /\ \A i \in 1..runs[r].n :
           /\ 0 <= runs[r].particleAttributes[i].stackHeight
           /\ runs[r].particleAttributes[i].stackHeight
                < runs[r].bucketColors[BucketOf(runs[r], i)]

\* C11 witness: a run over several batches has resolved with two particles
\* stacked in one bucket
C11_Witness ==
  \E r \in RunIds :
    /\ runs[r].stage = "resolved"
    /\ runs[r].initIntervals >= 2
    /\ runs[r].maxYValue >= 2
    /\ \E i \in 1..runs[r].n : runs[r].particleAttributes[i].stackHeight = 1

\* C12: a loader that has started on an image that is not empty quantizes with
\* the configured bucket count:
\* bucketsCount = bucketCount, and every particle's bucket is in [0, bucketCount)
C12_ConfiguredBucketCount ==
  \A r \in RunIds :
    (runs[r].stage \in {"scheduled", "abandoned", "resolved"} /\ runs[r].n >= 1) =>
      /\ runs[r].bucketsCount = bucketCount
      /\ \A i \in 1..runs[r].idx : BucketOf(runs[r], i) \in 0..(bucketCount - 1)

\* C17: two runs on the same pixels that have both resolved agree, particle by
\* particle, on value, bucket, stackHeight and sourceIndex, and on maxYValue,
\* whatever the batches of each (the jitter is not compared)
C17_SameLayoutOnRerun ==
  (runs[1].stage = "resolved" /\ runs[2].stage = "resolved") =>
    /\ runs[1].n = runs[2].n
    /\ runs[1].bucketsCount = runs[2].bucketsCount
    /\ runs[1].maxYValue = runs[2].maxYValue
    /\ \A i \in 1..runs[1].n :
         /\ runs[1].particleAttributes[i].value = runs[2].particleAttributes[i].value
         /\ BucketOf(runs[1], i) = BucketOf(runs[2], i)
         /\ runs[1].particleAttributes[i].stackHeight
              = runs[2].particleAttributes[i].stackHeight
         /\ runs[1].particleAttributes[i].sourceIndex
              = runs[2].particleAttributes[i].sourceIndex

\* C17 witness: both runs have resolved on an image of several pixels, split into
\* batches differently, with different jitter
C17_Witness ==
  /\ runs[1].stage = "resolved"
  /\ runs[2].stage = "resolved"
  /\ runs[1].n >= 2
  /\ runs[1].initIntervals # runs[2].initIntervals
  /\ runs[1].maxYValue >= 2
  /\ \A i \in 1..runs[1].n :
       runs[1].particleAttributes[i].frameSpan # runs[2].particleAttributes[i].frameSpan

\* C19: when the cancellation flag is never set and every scheduled timer runs,
\* a scheduled run eventually resolves (no run stays scheduled for ever, and a
\* run leaves that stage only by resolving); a run resolves at most once, and only
\* with its cursor at the end and every pixel written to one slot; the cursor
\* never moves back, and every batch of a run with pixels left moves it forward
C19_EventuallyResolvesOnce ==
  /\ <>[](\A r \in RunIds : runs[r].stage # "scheduled")
  /\ [][\A r \in RunIds :
          (runs[r].stage = "scheduled" /\ runs'[r].stage # "scheduled")
            => runs'[r].stage = "resolved"]_vars
  /\ []~isCancelled
  /\ [](\A r \in RunIds :
          /\ runs[r].resolves <= 1
          /\ (runs[r].stage = "resolved") <=> (runs[r].resolves = 1))
  /\ [](\A r \in RunIds :
          runs[r].stage = "resolved" =>
            /\ runs[r].idx = runs[r].n
            /\ {runs[r].particleAttributes[i].sourceIndex : i \in 1..runs[r].n}
                 = 0..(runs[r].n - 1))
  /\ [][\A r \in RunIds :
          /\ runs'[r].idx >= runs[r].idx
          /\ (runs'[r] # runs[r] /\ runs[r].stage = "scheduled" /\ runs[r].idx < runs[r].n)
               => runs'[r].idx > runs[r].idx]_vars

\* C19 witness: a run on several pixels has resolved after more than one batch,
\* the flag never set
C19_Witness ==
  \E r \in RunIds :
    /\ runs[r].stage = "resolved"
    /\ runs[r].n >= 2
    /\ runs[r].initIntervals >= 2
    /\ ~isCancelled


\* ---- the length of a phase ---------------------------------------------------------

\* a loaded chart, not disposed, animates over a jitter range that is not empty
Animating == Live /\ Lt(minFrameSpan, maxFrameSpan)

\* C13 (as amended): a Collapse phase started at minFrameSpan with
\* frameChangeRate = (maxFrameSpan - minFrameSpan) / framesCount has, after
\* exactly framesCount ticks, its frame number at maxFrameSpan and is still in
\* Collapse with the next tick requested; it never counts more ticks, and the
\* switch to Expand is made by tick framesCount + 1
C13_FlipsOnTickAfterF ==
  /\ []((Animating /\ state = ANIMATION_COLLAPSE /\ ticks.now = framesCount)
          => (currentFrameNumber = maxFrameSpan /\ rafs = {nextAnimationFrame}))
  /\ []((Animating /\ state = ANIMATION_COLLAPSE) => ticks.now <= framesCount)
  /\ [][(Animating /\ CollapseEnds)
          => (ticks.now = framesCount /\ ticks'.last = framesCount + 1)]_vars

\* C13 witness: framesCount >= 2 ticks of a Collapse phase have run
C13_Witness ==
  /\ Animating
  /\ state = ANIMATION_COLLAPSE
  /\ framesCount >= 2
  /\ ticks.now = framesCount
  /\ currentFrameNumber = maxFrameSpan

\* C13 (as claimed): once framesCount ticks of a Collapse phase have run the
\* phase is Expand: no state of the Collapse phase has framesCount ticks behind it
C13_FlippedAfterFTicks ==
  (Animating /\ state = ANIMATION_COLLAPSE) => ticks.now < framesCount

C14_FramesCountAtLeastOne ==
  currentPixChart # 0 =>
    /\ framesCount >= 1
    /\ (Live => ~Lt(frameChangeRate, Num(0)))

\* the step in which the load of a setMaxPixels call installs its result
ReloadInstalls ==
  \E l \in LoadIds \ {1} :
    /\ loads[l].stage = "scheduled"
    /\ loads'[l].stage = "resolved"
    /\ particleAttributesBuffer' = l

\* C15: the installation of a reload's buffer and stats leaves the frame number
\* and the phase as they are and restarts nothing: no pause timer and no frame
\* callback is added or removed, and no cycle is reported complete
C15_ReloadKeepsFrameAndPhase ==
  [][ReloadInstalls =>
       /\ currentFrameNumber' = currentFrameNumber
       /\ state' = state
       /\ pendingTimeout' = pendingTimeout
       /\ timeouts' = timeouts
       /\ nextAnimationFrame' = nextAnimationFrame
       /\ rafs' = rafs
       /\ ticks' = ticks
       /\ "cycleComplete" \notin calls'
       /\ minFrameSpan' = loads'[particleAttributesBuffer'].minFrameSpan
       /\ maxFrameSpan' = loads'[particleAttributesBuffer'].maxFrameSpan]_vars

\* C15 witness: a reload's result has just been installed in the middle of an
\* Expand phase, at a frame number that is not the start of the new layout
C15_Witness ==
  /\ ~disposed
  /\ particleAttributesBuffer # 0 /\ particleAttributesBuffer # 1
  /\ loads[particleAttributesBuffer].stage = "resolved"
  /\ calls = {"drawArrays"}
  /\ state = ANIMATION_EXPAND
  /\ currentFrameNumber # minFrameSpan
  /\ rafs # {}

\* no layout result has been installed yet: the jitter bounds are still the
\* undefined of their declaration (part_000:54)
NothingInstalled == minFrameSpan = NaN /\ maxFrameSpan = NaN

\* C20: before the first layout result is installed no animation tick has run:
\* nothing is drawn, and phase and frame number are those of the construction.
\* restartCycle starts the pause timer whether or not a layout is installed
\* (part_000:211-217), and the frame callback of setSceneSize draws
\* unconditionally (part_000:146-150).
C20_NoTickBeforeInstall ==
  NothingInstalled =>
    /\ "drawArrays" \notin calls
    /\ state = initialState
    /\ currentFrameNumber = Num(0)
    /\ ticks = [now |-> 0, last |-> 0]

\* the session holds a chart that is not disposed
ActiveChart == currentPixChart # 0 /\ ~disposed

\* a step of setBucketCount or setColorGroupBy taken while a chart is active
RestartStep ==
  ActiveChart /\ (SetColorGroupBy \/ \E b \in BucketCounts : SetBucketCount(b))

\* every such step disposes the chart and leaves the creation of some chart
\* pending under the handle the session holds (scene.js:296-307)
RestartDisposesAndSchedules ==
  [][RestartStep =>
       /\ disposed'
       /\ \E tm \in sceneTimeouts' :
            tm.id = scenePendingTimeout' /\ tm.kind = "create"]_vars

\* C16: a bucket-count or grouping-key change made while a chart is active
\* disposes that chart and schedules the creation of a fresh chart for the image
\* that chart was showing.  restartCurrentAnimation takes the image from
\* queue[lastIndex - 1] (scene.js:155-162), which is not the image of the
\* active chart when that chart was created by a timer the session had lost
\* track of.
C16_RestartsSameImage ==
  [][RestartStep =>
       /\ disposed'
       /\ \E tm \in sceneTimeouts' :
            /\ tm.id = scenePendingTimeout'
            /\ tm.kind = "create"
            /\ tm.img = currentPixChart]_vars

\* the loads requested so far, the constructor's (1) and those of setMaxPixels
\* in the order of the calls
RequestedLoads == {l \in LoadIds : loads[l].stage # "none"}

\* the load requested last
LatestLoad == CHOOSE l \in RequestedLoads : \A m \in RequestedLoads : m <= l

\* every load requested has resolved with at least one pixel, in a chart that
\* was never disposed
AllLoadsResolved ==
  /\ ~disposed
  /\ RequestedLoads # {}
  /\ \A l \in RequestedLoads : loads[l].stage = "resolved" /\ loads[l].n >= 1

\* C21: once all overlapping loads of a chart have finished, the buffer, the
\* texture and the jitter bounds installed are those of the load requested
\* last.  Each load installs its result when its own promise resolves
\* (part_000:83, 98), whatever was requested after it.
C21_LatestBudgetInstalled ==
  AllLoadsResolved =>
    /\ particleAttributesBuffer = LatestLoad
    /\ imgInfo = LatestLoad
    /\ minFrameSpan = loads[LatestLoad].minFrameSpan
    /\ maxFrameSpan = loads[LatestLoad].maxFrameSpan

\* the index (from 0) of the queue entry shown: processNextInQueue leaves
\* lastIndex one past it, cyclically (scene.js:397-399)
ShownIndex == (lastIndex + Len(queue) - 1) % Len(queue)

\* the image the step hands to setImage with forceDispose: created at once when
\* the session holds no chart, otherwise by the creation timer it holds
\* (scene.js:296-309)
StepLoads(img) ==
  IF currentPixChart = 0
  THEN currentPixChart' = img
  ELSE \E tm \in sceneTimeouts' :
         tm.id = scenePendingTimeout' /\ tm.kind = "create" /\ tm.img = img

\* C23: processPrevInQueue loads the entry cyclically preceding the one shown,
\* index (c - 1) mod L, and leaves lastIndex within the queue, one past the
\* entry loaded.  The code steps lastIndex back by 2 and replaces any negative
\* result by L - 1 (scene.js:386-387).
C23_PrevSelectsPreceding ==
  [][KeyPrev =>
       LET L == Len(queue)
           prev == (ShownIndex + L - 1) % L
       IN /\ StepLoads(queue[prev + 1])
          /\ lastIndex' = (prev + 1) % L
          /\ lastIndex' \in 0..(L - 1)]_vars

\* after any step of the left arrow key lastIndex is within the queue
PrevKeepsIndexInQueue ==
  [][KeyPrev => lastIndex' \in 0..(Len(queue') - 1)]_vars

\* C22: the session is never left with a disposed chart as its only chart and
\* nothing pending: while the chart it holds is disposed, a timer of the session
\* is outstanding (the delayed creation of scene.js:304-307, or at least a
\* processNextInQueue).  setImage compares the link with that of the chart it
\* holds without asking whether that chart is disposed (scene.js:291-294), after
\* processNextInQueue has cleared the pending creation (scene.js:392-395).
C22_DisposedChartHasCreationPending ==
  (currentPixChart # 0 /\ disposed) => sceneTimeouts # {}

====
